---- MODULE Spec2Model ----
(***************************************************************************)
(* Model of the streaming delivery buffer (src/ai/streaming.py), of the    *)
(* repository preparation performed by the Codegen agent                   *)
(* (src/agents/codegen_agent.py) and of the preparation job state machine  *)
(* that the /parsing-status command queries.                               *)
(*                                                                         *)
(* Time is counted in ticks of 0.1 s, the sleep of the flush loop, from the *)
(* entry of StreamingResponseHandler.start.                                *)
(* Text is a sequence of characters; string concatenation is \o.           *)
(***************************************************************************)
EXTENDS Integers, Sequences, FiniteSets, TLC

\* ------------------------------------------------------------------ bounds
MaxFrags == 2
MaxTime == 7
MaxRequests == 3
MaxLoops == 2
\* the number of isReady() polls of one attempt loop (a policy constant)
MAX_ATTEMPTS == 3
\* the number of complete() calls an arbitrary caller makes on one handler
MaxFinishes == 2
\* the last instant of the clock of a session observed over two update intervals
RateTime == 10
\* chat commands and thread messages handled in one run
MaxMessages == 2
\* entries of the history a thread starts a run with
OldEntries == 9
\* the backoff policy constants: the base wait and the per-attempt maximum
BACKOFF_BASE == 2
MAX_WAIT == 3

\* ------------------------------------------------------- program constants
\* self.update_interval = 0.5 s, in ticks of 0.1 s
UPDATE_INTERVAL == 5
\* time.sleep(0.1), in ticks of 0.1 s
SLEEP_TICKS == 1

\* the fragments a provider may yield (the empty string included)
Frags == {<<>>, <<"a">>, <<"b">>}

RECURSIVE SeqsUpTo(_)
SeqsUpTo(n) ==
    IF n = 0 THEN {<<>>}
    ELSE LET S == SeqsUpTo(n - 1)
         IN  S \cup {Append(s, f) : s \in {x \in S : Len(x) = n - 1}, f \in Frags}

\* f1 + f2 + ... + fn
RECURSIVE Concat(_)
Concat(fs) == IF fs = <<>> THEN <<>> ELSE Head(fs) \o Concat(Tail(fs))

IsPrefix(s, t) == Len(s) <= Len(t) /\ SubSeq(t, 1, Len(s)) = s

CeilDiv(a, b) == (a + b - 1) \div b

VARIABLES
    now,              \* wall clock, time.time()
    hasStreaming,     \* hasattr(provider, 'generate_streaming_response')
    chunks,           \* the fragments the streaming provider yields
    response,         \* the text the single-shot generate_response returns
    hpc,              \* position of stream_response (the producing thread)
    pushed,           \* the fragments given to add_content so far, in order
    queue,            \* handler.queue
    buffer,           \* handler.buffer
    is_complete,      \* handler.is_complete
    is_running,       \* handler.is_running
    message_ts,       \* handler.message_ts
    last_update_time, \* handler.last_update_time
    current_time,     \* local of _update_message_loop
    wake,             \* end of the current time.sleep(0.1)
    lpc,              \* position of _update_message_loop
    calls,            \* chat_update calls made by the flush loop
    sinkText,         \* what the chat message shows
    result,           \* the value stream_response returned
    genCalls,         \* number of generate_response calls
    completeTime,     \* time at which handler.complete() was called
    \* ---- the /codegen command handlers and their CodegenAgent instances
    codegen_available, \* CodegenAgent.codegen_available
    apc,              \* position of each running handle_codegen_command
    req,              \* the command each handler received
    state,            \* self.state of the agent each handler created
    res,              \* the result dictionary of process()
    parsing,          \* the repository whose parse_repo() a handler is inside
    parseCalls,       \* number of parse_repo() calls begun
    handled,          \* number of commands answered
    exc,              \* the exception the preparation of each handler raised
    \* ---- the preparation job behind get_parsing_status and 'retry parsing'
    phase,            \* NotStarted, InProgress, Completed or Failed
    last_error,       \* the stored error message, "None" when there is none
    attempt_count,    \* attempts begun since the last fresh start
    jpc,              \* position of the background attempt loop
    pollIdx,          \* number of isReady() polls made by the running loop
    items,            \* itemCount of the last ready answer
    active,           \* number of attempt loops running
    beginCalls,       \* number of preparer begin() calls
    loopsStarted,     \* number of attempt loops launched
    emptyRun,         \* the current run got a ready answer with no items
    cpc,              \* position of each caller
    ret,              \* what each caller's last call returned
    snap,             \* the last status() snapshot of each caller
    resetMark,        \* loopsStarted when the caller's retry() reset the job
    lastCall,         \* the operation performed last
    lastWait,         \* the backoff sleep since the last poll of the running loop
    reply,            \* the last answer of the /parsing-status command
    \* ---- a StreamingResponseHandler driven by an arbitrary caller
    starts,           \* number of start() calls begun
    finishes,         \* number of complete() calls
    lpc2,             \* position of the flush thread of a second start()
    \* ---- the thread chat handlers and the conversation memory
    tpc,              \* position of thread_chat_callback / handle_thread_message
    origin,           \* "command" (/chat) or "thread" (a message in a thread)
    memory_enabled,   \* preferences["memory_enabled"]
    history,          \* the stored conversation history of the user/channel/thread
    delivered,        \* the AI reply shown in the thread, "None" when none
    viaStream,        \* the reply was delivered by stream_response
    msgs              \* messages and commands handled so far

svars == <<now, hasStreaming, chunks, response, hpc, pushed, queue, buffer,
           is_complete, is_running, message_ts, last_update_time,
           current_time, wake, lpc, calls, sinkText, result, genCalls, completeTime>>

avars == <<codegen_available, apc, req, state, res, parsing, parseCalls,
           handled, exc>>

jvars == <<phase, last_error, attempt_count, jpc, pollIdx, items, active,
           beginCalls, loopsStarted, emptyRun, cpc, ret, snap, resetMark,
           lastCall, lastWait, reply>>

xvars == <<starts, finishes, lpc2>>

cvars == <<tpc, origin, memory_enabled, history, delivered, viaStream,
           msgs>>

vars == <<svars, avars, jvars, xvars, cvars>>

\* ---------------------------------------------------------------- __init__
HandlerInit ==
    /\ now = 0
    /\ hpc = "init"
    /\ pushed = <<>>
    /\ queue = <<>>
    /\ buffer = <<>>
    /\ is_complete = FALSE
    /\ is_running = FALSE
    /\ message_ts = "None"
    /\ last_update_time = 0
    /\ current_time = 0
    /\ wake = 0
    /\ lpc = "idle"
    /\ calls = <<>>
    /\ sinkText = [kind |-> "none", text |-> <<>>]
    /\ result = <<>>
    /\ genCalls = 0
    /\ completeTime = 0

\* the handler is driven by stream_response: one start(), no second thread
SessionIdle ==
    /\ starts = 0
    /\ finishes = 0
    /\ lpc2 = "idle"

\* no chat message is being handled
ChatIdle ==
    /\ tpc = "idle"
    /\ origin = "thread"
    /\ memory_enabled = FALSE
    /\ history = <<>>
    /\ delivered = "None"
    /\ viaStream = FALSE
    /\ msgs = 0

\* the provider stream_response is called with
InitStream ==
    /\ hasStreaming \in BOOLEAN
    /\ chunks \in (IF hasStreaming THEN SeqsUpTo(MaxFrags) ELSE {<<>>})
    /\ response \in (IF hasStreaming THEN {<<>>} ELSE Frags \cup {<<"a", "b">>})
    /\ HandlerInit

\* no reply is being streamed
StreamIdle ==
    /\ hasStreaming = FALSE
    /\ chunks = <<>>
    /\ response = <<>>
    /\ HandlerInit

\* time passes; the clock is read relative to the entry of handler.start()
Tick ==
    /\ hpc # "init"
    /\ now < MaxTime
    /\ now' = now + 1
    /\ UNCHANGED <<avars, jvars, xvars, cvars>>
    /\ UNCHANGED <<hasStreaming, chunks, response, hpc, pushed, queue, buffer,
                   is_complete, is_running, message_ts, last_update_time,
                   current_time, wake, lpc, calls, sinkText, result, genCalls, completeTime>>


\* ------------------------------------------------- stream_response (caller)
\* StreamingResponseHandler.start, lines 37-38
StartBegin ==
    /\ hpc = "init"
    /\ is_running' = TRUE
    /\ last_update_time' = now
    /\ hpc' = "posting"
    /\ UNCHANGED <<avars, jvars, xvars, cvars>>
    /\ UNCHANGED <<now, hasStreaming, chunks, response, pushed, queue, buffer,
                   is_complete, message_ts, current_time, wake, lpc, calls,
                   sinkText, result, genCalls, completeTime>>

\* variant: the handle of the posted message is not kept
RecordedHandle_none(ts) == "None"

\* line 46: self.message_ts = response["ts"]
RecordedHandle(ts) == ts

\* StreamingResponseHandler.start, lines 41-49: the placeholder is posted, the
\* handle recorded and the update thread started
StartPostOk ==
    /\ hpc = "posting"
    /\ sinkText' = [kind |-> "placeholder", text |-> <<>>]
    /\ message_ts' = RecordedHandle("ts")
    /\ lpc' = "top"
    /\ hpc' = "provider"
    /\ UNCHANGED <<avars, jvars, xvars, cvars>>
    /\ UNCHANGED <<now, hasStreaming, chunks, response, pushed, queue, buffer,
                   is_complete, is_running, last_update_time, current_time,
                   wake, calls, result, genCalls, completeTime>>

\* chat_postMessage raises: start() is left before the thread is started
StartPostFails ==
    /\ hpc = "posting"
    /\ hpc' = "except"
    /\ UNCHANGED <<avars, jvars, xvars, cvars>>
    /\ UNCHANGED <<now, hasStreaming, chunks, response, pushed, queue, buffer,
                   is_complete, is_running, message_ts, last_update_time,
                   current_time, wake, lpc, calls, sinkText, result, genCalls, completeTime>>

\* lines 127-131: _get_provider, set_model and the hasattr test
GetProviderOk ==
    /\ hpc = "provider"
    /\ hpc' = IF hasStreaming THEN "stream" ELSE "generate"
    /\ UNCHANGED <<avars, jvars, xvars, cvars>>
    /\ UNCHANGED <<now, hasStreaming, chunks, response, pushed, queue, buffer,
                   is_complete, is_running, message_ts, last_update_time,
                   current_time, wake, lpc, calls, sinkText, result, genCalls, completeTime>>

\* _get_provider, set_model, the fragment sequence or generate_response raises
ProviderFails ==
    /\ \/ hpc = "provider"
       \/ hpc = "stream" /\ Len(pushed) < Len(chunks)
       \/ hpc = "generate"
    /\ genCalls' = IF hpc = "generate" THEN genCalls + 1 ELSE genCalls
    /\ hpc' = "except"
    /\ UNCHANGED <<avars, jvars, xvars, cvars>>
    /\ UNCHANGED <<now, hasStreaming, chunks, response, pushed, queue, buffer,
                   is_complete, is_running, message_ts, last_update_time,
                   current_time, wake, lpc, calls, sinkText, result, completeTime>>

\* StreamingResponseHandler.add_content: self.queue.put(content)
add_content(content) ==
    /\ queue' = Append(queue, content)
    /\ pushed' = Append(pushed, content)

\* lines 133-134: one turn of the for loop over the provider's fragments
StreamPush ==
    /\ hpc = "stream"
    /\ Len(pushed) < Len(chunks)
    /\ add_content(chunks[Len(pushed) + 1])
    /\ UNCHANGED <<avars, jvars, xvars, cvars>>
    /\ UNCHANGED <<now, hasStreaming, chunks, response, hpc, buffer,
                   is_complete, is_running, message_ts, last_update_time,
                   current_time, wake, lpc, calls, sinkText, result, genCalls, completeTime>>

\* variant: a second complete() takes the mark back
complete_toggle ==
    /\ is_complete' = ~is_complete
    /\ completeTime' = now
    /\ UNCHANGED <<queue, buffer, calls, sinkText, last_update_time,
                   message_ts>>

\* variant: complete() sends the final update itself
complete_flushing ==
    /\ is_complete' = TRUE
    /\ completeTime' = now
    /\ calls' = Append(calls, [text |-> buffer, ok |-> TRUE, t |-> now,
                               ts |-> message_ts, done |-> TRUE,
                               n |-> Len(pushed)])
    /\ sinkText' = [kind |-> "content", text |-> buffer]
    /\ UNCHANGED <<queue, buffer, last_update_time, message_ts>>

\* StreamingResponseHandler.complete, lines 60-62: self.is_complete = True
complete ==
    /\ is_complete' = TRUE
    /\ completeTime' = now
    /\ UNCHANGED <<queue, buffer, calls, sinkText, last_update_time,
                   message_ts>>

\* line 137, after the fragment sequence is exhausted
StreamComplete ==
    /\ hpc = "stream"
    /\ Len(pushed) = Len(chunks)
    /\ complete
    /\ hpc' = "return"
    /\ UNCHANGED <<avars, jvars, xvars, cvars>>
    /\ UNCHANGED <<now, hasStreaming, chunks, response, pushed, is_running,
                   current_time, wake, lpc, result, genCalls>>

\* line 141: response = provider.generate_response(prompt, system_content)
Generate ==
    /\ hpc = "generate"
    /\ genCalls' = genCalls + 1
    /\ hpc' = "add_single"
    /\ UNCHANGED <<avars, jvars, xvars, cvars>>
    /\ UNCHANGED <<now, hasStreaming, chunks, response, pushed, queue, buffer,
                   is_complete, is_running, message_ts, last_update_time,
                   current_time, wake, lpc, calls, sinkText, result, completeTime>>

\* line 142: handler.add_content(response)
SinglePush ==
    /\ hpc = "add_single"
    /\ add_content(response)
    /\ hpc' = "complete_single"
    /\ UNCHANGED <<avars, jvars, xvars, cvars>>
    /\ UNCHANGED <<now, hasStreaming, chunks, response, buffer,
                   is_complete, is_running, message_ts, last_update_time,
                   current_time, wake, lpc, calls, sinkText, result, genCalls, completeTime>>

\* line 143: handler.complete()
SingleComplete ==
    /\ hpc = "complete_single"
    /\ complete
    /\ hpc' = "return"
    /\ UNCHANGED <<avars, jvars, xvars, cvars>>
    /\ UNCHANGED <<now, hasStreaming, chunks, response, pushed, is_running,
                   current_time, wake, lpc, result, genCalls>>

\* variant: both paths return handler.buffer
ReturnedText_buffer(streaming, buf, resp) == buf

\* what stream_response returns: handler.buffer (line 138) or response (144)
ReturnedText(streaming, buf, resp) == IF streaming THEN buf ELSE resp

Return ==
    /\ hpc = "return"
    /\ result' = ReturnedText(hasStreaming, buffer, response)
    /\ hpc' = "returned"
    /\ UNCHANGED <<avars, jvars, xvars, cvars>>
    /\ UNCHANGED <<now, hasStreaming, chunks, response, pushed, queue, buffer,
                   is_complete, is_running, message_ts, last_update_time,
                   current_time, wake, lpc, calls, sinkText, genCalls, completeTime>>

\* lines 146-158: the error text is written to the placeholder when there is
\* one (a failure of that write is swallowed) and the error is raised again
ExceptUpdate ==
    /\ hpc = "except"
    /\ \/ /\ message_ts # "None"
          /\ sinkText' = [kind |-> "error", text |-> <<>>]
       \/ UNCHANGED sinkText
    /\ hpc' = "raised"
    /\ UNCHANGED <<avars, jvars, xvars, cvars>>
    /\ UNCHANGED <<now, hasStreaming, chunks, response, pushed, queue, buffer,
                   is_complete, is_running, message_ts, last_update_time,
                   current_time, wake, lpc, calls, result, genCalls, completeTime>>


\* ------------------------------------- _update_message_loop (flush thread)
\* line 66, reached at thread start and after each time.sleep(0.1)
LoopTop ==
    /\ lpc = "top"
    /\ now >= wake
    /\ lpc' = IF is_running THEN "drain" ELSE "done"
    /\ UNCHANGED <<avars, jvars, xvars, cvars>>
    /\ UNCHANGED <<now, hasStreaming, chunks, response, hpc, pushed, queue,
                   buffer, is_complete, is_running, message_ts,
                   last_update_time, current_time, wake, calls, sinkText,
                   result, genCalls, completeTime>>

\* variant: the fragment taken from the queue replaces the buffer
Drained_replace(buf, frag) == frag

\* line 70: self.buffer += self.queue.get_nowait()
Drained(buf, frag) == buf \o frag

\* lines 69-70: one turn of the drain loop
DrainOne ==
    /\ lpc = "drain"
    /\ queue # <<>>
    /\ buffer' = Drained(buffer, Head(queue))
    /\ queue' = Tail(queue)
    /\ UNCHANGED <<avars, jvars, xvars, cvars>>
    /\ UNCHANGED <<now, hasStreaming, chunks, response, hpc, pushed,
                   is_complete, is_running, message_ts, last_update_time,
                   current_time, wake, lpc, calls, sinkText, result, genCalls, completeTime>>

\* line 69: the drain loop sees the queue empty
DrainDone ==
    /\ lpc = "drain"
    /\ queue = <<>>
    /\ lpc' = "time"
    /\ UNCHANGED <<avars, jvars, xvars, cvars>>
    /\ UNCHANGED <<now, hasStreaming, chunks, response, hpc, pushed, queue,
                   buffer, is_complete, is_running, message_ts,
                   last_update_time, current_time, wake, calls, sinkText,
                   result, genCalls, completeTime>>

\* line 72: current_time = time.time()
ReadTime ==
    /\ lpc = "time"
    /\ current_time' = now
    /\ lpc' = "check"
    /\ UNCHANGED <<avars, jvars, xvars, cvars>>
    /\ UNCHANGED <<now, hasStreaming, chunks, response, hpc, pushed, queue,
                   buffer, is_complete, is_running, message_ts,
                   last_update_time, wake, calls, sinkText, result, genCalls, completeTime>>

\* variant: the message is updated in every iteration
ShouldUpdate_always(ct, lut, done) == TRUE

\* line 74: enough time has passed or the response is complete
ShouldUpdate(ct, lut, done) == (ct - lut >= UPDATE_INTERVAL) \/ done

\* variant: an empty buffer is sent as well
HasText_always(buf) == TRUE

\* line 75: if self.buffer
HasText(buf) == buf # <<>>

\* lines 74-75: the update condition and the test for an empty buffer
Check ==
    /\ lpc = "check"
    /\ lpc' = IF ShouldUpdate(current_time, last_update_time, is_complete)
                 /\ HasText(buffer)
              THEN "update" ELSE "exit_check"
    /\ UNCHANGED <<avars, jvars, xvars, cvars>>
    /\ UNCHANGED <<now, hasStreaming, chunks, response, hpc, pushed, queue,
                   buffer, is_complete, is_running, message_ts,
                   last_update_time, current_time, wake, calls, sinkText,
                   result, genCalls, completeTime>>

\* line 86: self.last_update_time = current_time
NextLastUpdate(ct, lut) == ct

\* lines 77-86: chat_update succeeds
UpdateOk ==
    /\ lpc = "update"
    /\ calls' = Append(calls, [text |-> buffer, ok |-> TRUE, t |-> now,
                               ts |-> message_ts, done |-> is_complete,
                               n |-> Len(pushed)])
    /\ sinkText' = [kind |-> "content", text |-> buffer]
    /\ last_update_time' = NextLastUpdate(current_time, last_update_time)
    /\ lpc' = "exit_check"
    /\ UNCHANGED <<avars, jvars, xvars, cvars>>
    /\ UNCHANGED <<now, hasStreaming, chunks, response, hpc, pushed, queue,
                   buffer, is_complete, is_running, message_ts, current_time,
                   wake, result, genCalls, completeTime>>

\* variant: the loop sleeps and tries again after a failed update
AfterSinkError_retry == "sleep"

\* lines 96-99: where the loop goes after logging the error
AfterSinkError == "done"

\* chat_update raises: lines 96-99
UpdateFails ==
    /\ lpc = "update"
    /\ calls' = Append(calls, [text |-> buffer, ok |-> FALSE, t |-> now,
                               ts |-> message_ts, done |-> is_complete,
                               n |-> Len(pushed)])
    /\ is_running' = FALSE
    /\ lpc' = AfterSinkError
    /\ UNCHANGED <<avars, jvars, xvars, cvars>>
    /\ UNCHANGED <<now, hasStreaming, chunks, response, hpc, pushed, queue,
                   buffer, is_complete, message_ts, last_update_time,
                   current_time, wake, sinkText, result, genCalls,
                   completeTime>>

\* line 89, left operand: self.is_complete
ExitCheck ==
    /\ lpc = "exit_check"
    /\ lpc' = IF is_complete THEN "exit_queue" ELSE "sleep"
    /\ UNCHANGED <<avars, jvars, xvars, cvars>>
    /\ UNCHANGED <<now, hasStreaming, chunks, response, hpc, pushed, queue,
                   buffer, is_complete, is_running, message_ts,
                   last_update_time, current_time, wake, calls, sinkText,
                   result, genCalls, completeTime>>

\* variant: the loop ends without looking at the queue
NothingPending_always(q) == TRUE

\* line 89, right operand: self.queue.empty()
NothingPending(q) == q = <<>>

\* lines 89-91: complete and nothing pending, the loop ends
LoopExit ==
    /\ lpc = "exit_queue"
    /\ NothingPending(queue)
    /\ is_running' = FALSE
    /\ lpc' = "done"
    /\ UNCHANGED <<avars, jvars, xvars, cvars>>
    /\ UNCHANGED <<now, hasStreaming, chunks, response, hpc, pushed, queue,
                   buffer, is_complete, message_ts, last_update_time,
                   current_time, wake, calls, sinkText, result, genCalls, completeTime>>

\* line 89: complete, but fragments are pending
LoopContinue ==
    /\ lpc = "exit_queue"
    /\ ~NothingPending(queue)
    /\ lpc' = "sleep"
    /\ UNCHANGED <<avars, jvars, xvars, cvars>>
    /\ UNCHANGED <<now, hasStreaming, chunks, response, hpc, pushed, queue,
                   buffer, is_complete, is_running, message_ts,
                   last_update_time, current_time, wake, calls, sinkText,
                   result, genCalls, completeTime>>

\* line 94: time.sleep(0.1)
Sleep ==
    /\ lpc = "sleep"
    /\ wake' = now + SLEEP_TICKS
    /\ lpc' = "top"
    /\ UNCHANGED <<avars, jvars, xvars, cvars>>
    /\ UNCHANGED <<now, hasStreaming, chunks, response, hpc, pushed, queue,
                   buffer, is_complete, is_running, message_ts,
                   last_update_time, current_time, calls, sinkText, result,
                   genCalls, completeTime>>

\* line 94 at the last instant of the clock: the clock counts no further, and
\* a sleep that would end after that instant ends at it
WakeAtHorizon ==
    /\ lpc = "top"
    /\ now = MaxTime
    /\ wake > now
    /\ wake' = now
    /\ UNCHANGED <<avars, jvars, xvars, cvars>>
    /\ UNCHANGED <<now, hasStreaming, chunks, response, hpc, pushed, queue,
                   buffer, is_complete, is_running, message_ts,
                   last_update_time, current_time, lpc, calls, sinkText,
                   result, genCalls, completeTime>>

\* the steps of the flush thread
LoopThread ==
    \/ LoopTop \/ DrainOne \/ DrainDone \/ ReadTime \/ Check
    \/ UpdateOk \/ UpdateFails
    \/ ExitCheck \/ LoopExit \/ LoopContinue \/ Sleep \/ WakeAtHorizon

\* ------------------------- the handler's public operations, any caller
\* start(), lines 37-38
SessionStart ==
    /\ hpc = "init"
    /\ starts = 0
    /\ starts' = 1
    /\ is_running' = TRUE
    /\ last_update_time' = now
    /\ hpc' = "s_posting"
    /\ UNCHANGED <<finishes, lpc2>>
    /\ UNCHANGED <<avars, jvars, cvars>>
    /\ UNCHANGED <<now, hasStreaming, chunks, response, pushed, queue, buffer,
                   is_complete, message_ts, current_time, wake, lpc, calls,
                   sinkText, result, genCalls, completeTime>>

\* start(), lines 41-49: the placeholder is posted, the handle recorded and
\* the update thread started
SessionPostOk ==
    /\ hpc = "s_posting"
    /\ starts = 1
    /\ sinkText' = [kind |-> "placeholder", text |-> <<>>]
    /\ message_ts' = RecordedHandle("ts")
    /\ lpc' = "top"
    /\ hpc' = "open"
    /\ UNCHANGED <<avars, jvars, xvars, cvars>>
    /\ UNCHANGED <<now, hasStreaming, chunks, response, pushed, queue, buffer,
                   is_complete, is_running, last_update_time, current_time,
                   wake, calls, result, genCalls, completeTime>>

\* start(), lines 41-45: chat_postMessage raises, start() is left at once
SessionPostFails ==
    /\ hpc = "s_posting"
    /\ starts = 1
    /\ hpc' = "raised"
    /\ UNCHANGED <<avars, jvars, xvars, cvars>>
    /\ UNCHANGED <<now, hasStreaming, chunks, response, pushed, queue, buffer,
                   is_complete, is_running, message_ts, last_update_time,
                   current_time, wake, lpc, calls, sinkText, result, genCalls,
                   completeTime>>

\* add_content(content), lines 51-58, at any moment
SessionPush ==
    /\ hpc \in {"init", "open"}
    /\ Len(pushed) < MaxFrags
    /\ \E f \in Frags : add_content(f)
    /\ UNCHANGED <<avars, jvars, xvars, cvars>>
    /\ UNCHANGED <<now, hasStreaming, chunks, response, hpc, buffer,
                   is_complete, is_running, message_ts, last_update_time,
                   current_time, wake, lpc, calls, sinkText, result, genCalls,
                   completeTime>>

\* complete(), lines 60-62, at any moment and any number of times
SessionFinish ==
    /\ hpc \in {"init", "open"}
    /\ finishes < MaxFinishes
    /\ finishes' = finishes + 1
    /\ complete
    /\ UNCHANGED <<starts, lpc2>>
    /\ UNCHANGED <<avars, jvars, cvars>>
    /\ UNCHANGED <<now, hasStreaming, chunks, response, hpc, pushed,
                   is_running, current_time, wake, lpc, result, genCalls>>

\* time passes during a session observed over two update intervals
RateTick ==
    /\ hpc # "init"
    /\ now < RateTime
    /\ now' = now + 1
    /\ UNCHANGED <<avars, jvars, xvars, cvars>>
    /\ UNCHANGED <<hasStreaming, chunks, response, hpc, pushed, queue, buffer,
                   is_complete, is_running, message_ts, last_update_time,
                   current_time, wake, lpc, calls, sinkText, result, genCalls,
                   completeTime>>

\* start() called again on an open handler, lines 37-38: nothing in start()
\* looks at is_running or at an earlier thread
RestartBegin ==
    /\ hpc = "open"
    /\ starts = 1
    /\ starts' = 2
    /\ is_running' = TRUE
    /\ last_update_time' = now
    /\ hpc' = "s_posting"
    /\ UNCHANGED <<finishes, lpc2>>
    /\ UNCHANGED <<avars, jvars, cvars>>
    /\ UNCHANGED <<now, hasStreaming, chunks, response, pushed, queue, buffer,
                   is_complete, message_ts, current_time, wake, lpc, calls,
                   sinkText, result, genCalls, completeTime>>

\* the second start(), lines 41-49: another placeholder is posted, its handle
\* replaces the recorded one and another update thread is started
RestartPostOk ==
    /\ hpc = "s_posting"
    /\ starts = 2
    /\ sinkText' = [kind |-> "placeholder", text |-> <<>>]
    /\ message_ts' = RecordedHandle("ts2")
    /\ lpc2' = "top"
    /\ hpc' = "open"
    /\ UNCHANGED <<starts, finishes>>
    /\ UNCHANGED <<avars, jvars, cvars>>
    /\ UNCHANGED <<now, hasStreaming, chunks, response, pushed, queue, buffer,
                   is_complete, is_running, last_update_time, current_time,
                   wake, lpc, calls, result, genCalls, completeTime>>

\* the second start(), lines 41-45: chat_postMessage raises
RestartPostFails ==
    /\ hpc = "s_posting"
    /\ starts = 2
    /\ hpc' = "raised"
    /\ UNCHANGED <<avars, jvars, xvars, cvars>>
    /\ UNCHANGED <<now, hasStreaming, chunks, response, pushed, queue, buffer,
                   is_complete, is_running, message_ts, last_update_time,
                   current_time, wake, lpc, calls, sinkText, result, genCalls,
                   completeTime>>

\* the second update thread, line 66 (its sleep of line 94 ends at any time)
Loop2Top ==
    /\ lpc2 = "top"
    /\ lpc2' = IF is_running THEN "iterate" ELSE "done"
    /\ UNCHANGED <<starts, finishes>>
    /\ UNCHANGED <<avars, jvars, cvars, svars>>

\* the second update thread, lines 68-86 and 96-99 in one step: the queue is
\* drained into the buffer and, when an update is due and there is text, the
\* message is updated
Loop2Iterate ==
    /\ lpc2 = "iterate"
    /\ buffer' = buffer \o Concat(queue)
    /\ queue' = <<>>
    /\ IF ShouldUpdate(now, last_update_time, is_complete) /\ HasText(buffer')
       THEN \/ /\ calls' = Append(calls, [text |-> buffer', ok |-> TRUE,
                                          t |-> now, ts |-> message_ts,
                                          done |-> is_complete,
                                          n |-> Len(pushed)])
               /\ sinkText' = [kind |-> "content", text |-> buffer']
               /\ last_update_time' = NextLastUpdate(now, last_update_time)
               /\ lpc2' = "exit"
               /\ UNCHANGED is_running
            \/ /\ calls' = Append(calls, [text |-> buffer', ok |-> FALSE,
                                          t |-> now, ts |-> message_ts,
                                          done |-> is_complete,
                                          n |-> Len(pushed)])
               /\ is_running' = FALSE
               /\ lpc2' = AfterSinkError
               /\ UNCHANGED <<sinkText, last_update_time>>
       ELSE /\ lpc2' = "exit"
            /\ UNCHANGED <<calls, sinkText, last_update_time, is_running>>
    /\ UNCHANGED <<starts, finishes>>
    /\ UNCHANGED <<avars, jvars, cvars>>
    /\ UNCHANGED <<now, hasStreaming, chunks, response, hpc, pushed,
                   is_complete, message_ts, current_time, wake, lpc, result,
                   genCalls, completeTime>>

\* the second update thread, lines 89-94
Loop2Exit ==
    /\ lpc2 = "exit"
    /\ IF is_complete /\ NothingPending(queue)
       THEN is_running' = FALSE /\ lpc2' = "done"
       ELSE lpc2' = "top" /\ UNCHANGED is_running
    /\ UNCHANGED <<starts, finishes>>
    /\ UNCHANGED <<avars, jvars, cvars>>
    /\ UNCHANGED <<now, hasStreaming, chunks, response, hpc, pushed, queue,
                   buffer, is_complete, message_ts, last_update_time,
                   current_time, wake, lpc, calls, sinkText, result, genCalls,
                   completeTime>>

\* --------------------------------- /codegen commands and the CodegenAgent
Handlers == {1, 2}
Repos == {"r1", "r2"}
Actions == {"set-repo", "analyze", "search", "generate", "edit"}

\* the messages of the exceptions the Codegen library may raise
Excs == {"e1", "e2"}

\* a result dictionary: its error text and the exception message that the
\* text carries ("None" when it carries none)
Result(text, detail) == [error |-> text, detail |-> detail]

\* _initialize_codebase, lines 120-122: the exception is logged and False
\* returned; the message does not leave the method
InitializeCodebaseFailed(e) == "None"

\* _handle_set_repo, lines 221-226: the failure value of set_repo
SetRepoFailure(detail) == Result("Failed to initialize codebase", detail)

\* CodegenAgent.__init__, lines 45-49
FreshState ==
    [current_codebase |-> "None", current_repo |-> "None",
     agent_instance |-> "None"]

NoCommand ==
    /\ apc = [h \in Handlers |-> "idle"]
    /\ req = [h \in Handlers |-> [action |-> "analyze", repo |-> ""]]
    /\ state = [h \in Handlers |-> FreshState]
    /\ res = [h \in Handlers |-> Result("none", "None")]
    /\ exc = [h \in Handlers |-> "None"]
    /\ parsing = [h \in Handlers |-> "None"]
    /\ parseCalls = 0
    /\ handled = 0

\* CodegenAgent._check_codegen_available, lines 58-62
InitAgent ==
    /\ codegen_available \in BOOLEAN
    /\ NoCommand

\* no /codegen command is being handled
AgentIdle ==
    /\ codegen_available = TRUE
    /\ NoCommand

\* handle_codegen_command, lines 33-53: the command is parsed, the first
\* answer posted and a new CodegenAgent created for this command
Receive(h) ==
    /\ apc[h] = "idle"
    /\ handled + Cardinality({k \in Handlers : apc[k] # "idle"}) < MaxRequests
    /\ \E a \in Actions, r \in Repos \cup {""} :
           req' = [req EXCEPT ![h] = [action |-> a, repo |-> r]]
    /\ state' = [state EXCEPT ![h] = FreshState]
    /\ res' = [res EXCEPT ![h] = Result("none", "None")]
    /\ apc' = [apc EXCEPT ![h] = "process"]
    /\ exc' = [exc EXCEPT ![h] = "None"]
    /\ UNCHANGED <<codegen_available, parsing, parseCalls, handled>>
    /\ UNCHANGED <<svars, jvars, xvars, cvars>>

\* CodegenAgent.process, lines 170-175
ProcessUnavailable(h) ==
    /\ apc[h] = "process"
    /\ ~codegen_available
    /\ res' = [res EXCEPT ![h] = Result("Codegen library not available", "None")]
    /\ apc' = [apc EXCEPT ![h] = "reply"]
    /\ UNCHANGED <<codegen_available, req, state, parsing, parseCalls, handled>>
    /\ UNCHANGED <<svars, jvars, xvars, cvars>>
    /\ UNCHANGED exc

\* _handle_analyze (256-270), _handle_search (314-319), _handle_generate
\* (374-379), _handle_edit (423-428) on the agent created for this command:
\* no default_repo is configured, nothing was initialised
QueryError(a) ==
    IF a = "search" THEN "Codebase not initialized" ELSE "Agent not initialized"

ProcessQuery(h) ==
    /\ apc[h] = "process"
    /\ codegen_available
    /\ req[h].action # "set-repo"
    /\ res' = [res EXCEPT ![h] =
                 IF state[h].agent_instance = "None"
                    \/ (req[h].action = "search"
                        /\ state[h].current_codebase = "None")
                 THEN Result(QueryError(req[h].action), "None")
                 ELSE Result("success", "None")]
    /\ apc' = [apc EXCEPT ![h] = "reply"]
    /\ UNCHANGED <<codegen_available, req, state, parsing, parseCalls, handled>>
    /\ UNCHANGED <<svars, jvars, xvars, cvars>>
    /\ UNCHANGED exc

\* _handle_set_repo, lines 211-217
SetRepoMissing(h) ==
    /\ apc[h] = "process"
    /\ codegen_available
    /\ req[h].action = "set-repo"
    /\ req[h].repo = ""
    /\ res' = [res EXCEPT ![h] = Result("Missing repository name", "None")]
    /\ apc' = [apc EXCEPT ![h] = "reply"]
    /\ UNCHANGED <<codegen_available, req, state, parsing, parseCalls, handled>>
    /\ UNCHANGED <<svars, jvars, xvars, cvars>>
    /\ UNCHANGED exc

\* _initialize_codebase, lines 101-108: cg_app.parse_repo() is entered
ParseBegin(h) ==
    /\ apc[h] = "process"
    /\ codegen_available
    /\ req[h].action = "set-repo"
    /\ req[h].repo # ""
    /\ parsing' = [parsing EXCEPT ![h] = req[h].repo]
    /\ parseCalls' = parseCalls + 1
    /\ apc' = [apc EXCEPT ![h] = "parsing"]
    /\ UNCHANGED <<codegen_available, req, state, res, handled>>
    /\ UNCHANGED <<svars, jvars, xvars, cvars>>
    /\ UNCHANGED exc

\* _initialize_codebase, lines 101-105 and 120-122: the import or the
\* CodegenApp constructor raises; _handle_set_repo, lines 221-226
InitCodebaseFails(h) ==
    /\ apc[h] = "process"
    /\ codegen_available
    /\ req[h].action = "set-repo"
    /\ req[h].repo # ""
    /\ \E e \in Excs :
           /\ exc' = [exc EXCEPT ![h] = e]
           /\ res' = [res EXCEPT ![h] = SetRepoFailure(InitializeCodebaseFailed(e))]
    /\ apc' = [apc EXCEPT ![h] = "reply"]
    /\ UNCHANGED <<codegen_available, req, state, parsing, parseCalls, handled>>
    /\ UNCHANGED <<svars, jvars, xvars, cvars>>

\* _initialize_codebase, lines 108-119: parse_repo() returns and the state is
\* updated
ParseEnd(h) ==
    /\ apc[h] = "parsing"
    /\ parsing' = [parsing EXCEPT ![h] = "None"]
    /\ state' = [state EXCEPT ![h].current_codebase = req[h].repo,
                              ![h].current_repo = req[h].repo]
    /\ apc' = [apc EXCEPT ![h] = "init_agent"]
    /\ UNCHANGED <<codegen_available, req, res, parseCalls, handled>>
    /\ UNCHANGED <<svars, jvars, xvars, cvars>>
    /\ UNCHANGED exc

\* _initialize_codebase, lines 108-111 and 120-122: parse_repo() or
\* get_codebase() raises; _handle_set_repo, lines 221-226
ParseFails(h) ==
    /\ apc[h] = "parsing"
    /\ parsing' = [parsing EXCEPT ![h] = "None"]
    /\ \E e \in Excs :
           /\ exc' = [exc EXCEPT ![h] = e]
           /\ res' = [res EXCEPT ![h] = SetRepoFailure(InitializeCodebaseFailed(e))]
    /\ apc' = [apc EXCEPT ![h] = "reply"]
    /\ UNCHANGED <<codegen_available, req, state, parseCalls, handled>>
    /\ UNCHANGED <<svars, jvars, xvars, cvars>>

\* _initialize_agent, lines 131-152, and _handle_set_repo, lines 237-241
InitAgentOk(h) ==
    /\ apc[h] = "init_agent"
    /\ state[h].current_codebase # "None"
    /\ state' = [state EXCEPT ![h].agent_instance = state[h].current_codebase]
    /\ res' = [res EXCEPT ![h] = Result("success", "None")]
    /\ apc' = [apc EXCEPT ![h] = "reply"]
    /\ UNCHANGED <<codegen_available, req, parsing, parseCalls, handled>>
    /\ UNCHANGED <<svars, jvars, xvars, cvars>>
    /\ UNCHANGED exc

\* _initialize_agent, lines 153-155, and _handle_set_repo, lines 230-235
InitAgentFails(h) ==
    /\ apc[h] = "init_agent"
    /\ res' = [res EXCEPT ![h] = Result("Failed to initialize agent", "None")]
    /\ apc' = [apc EXCEPT ![h] = "reply"]
    /\ UNCHANGED <<codegen_available, req, state, parsing, parseCalls, handled>>
    /\ UNCHANGED <<svars, jvars, xvars, cvars>>
    /\ UNCHANGED exc

\* handle_codegen_command, lines 98-178: the answer is written
Reply(h) ==
    /\ apc[h] = "reply"
    /\ handled' = handled + 1
    /\ apc' = [apc EXCEPT ![h] = "idle"]
    /\ UNCHANGED <<codegen_available, req, state, res, parsing, parseCalls>>
    /\ UNCHANGED <<svars, jvars, xvars, cvars>>
    /\ UNCHANGED exc


\* CodegenAgent.process called again on the same agent object (the
\* orchestrator keeps its agents and passes them one input after another):
\* self.state is what the previous call left
NextInput(h) ==
    /\ apc[h] = "reply"
    /\ handled + Cardinality({k \in Handlers : apc[k] # "idle"}) < MaxRequests
    /\ handled' = handled + 1
    /\ \E a \in Actions, r \in Repos \cup {""} :
           req' = [req EXCEPT ![h] = [action |-> a, repo |-> r]]
    /\ res' = [res EXCEPT ![h] = Result("none", "None")]
    /\ apc' = [apc EXCEPT ![h] = "process"]
    /\ exc' = [exc EXCEPT ![h] = "None"]
    /\ UNCHANGED <<codegen_available, state, parsing, parseCalls>>
    /\ UNCHANGED <<svars, jvars, xvars, cvars>>

\* ------------------------------------------------------- preparation job
Callers == {1, 2}
ItemCounts == {0, 1}

\* the job as constructed
\* a reply text: which sentence it is, the error it quotes, whether it asks the
\* caller to wait, whether it says that a retry is available
Message(kind, error, wait, retry) ==
    [kind |-> kind, error |-> error, wait |-> wait, retry |-> retry]

JobIdle ==
    /\ phase = "NotStarted"
    /\ last_error = "None"
    /\ attempt_count = 0
    /\ jpc = "idle"
    /\ pollIdx = 0
    /\ items = 0
    /\ active = 0
    /\ beginCalls = 0
    /\ loopsStarted = 0
    /\ emptyRun = FALSE
    /\ cpc = [c \in Callers |-> "idle"]
    /\ ret = [c \in Callers |-> "none"]
    /\ snap = [c \in Callers |->
                 [phase |-> "NotStarted", last_error |-> "None", empty |-> FALSE]]
    /\ resetMark = [c \in Callers |-> 0]
    /\ lastCall = <<0, "none">>
    /\ lastWait = 0
    /\ reply = [msg |-> Message("none", "None", FALSE, FALSE),
                phase |-> "none", stored |-> "None", active |-> "none"]

\* variant: start() also launches while an attempt loop is running
CanStart_always(ph) == ph \in {"NotStarted", "Failed", "InProgress"}

\* start(): only NotStarted and Failed launch an attempt loop
CanStart(ph) == ph \in {"NotStarted", "Failed"}

\* variant: start() keeps the stored error
ErrorAfterStart_kept(err) == err

\* last_error is cleared on every transition out of Failed
ErrorAfterStart(err) == "None"

\* start(), launching branch: InProgress and one background attempt loop
Launch ==
    /\ loopsStarted < MaxLoops
    /\ phase' = "InProgress"
    /\ last_error' = ErrorAfterStart(last_error)
    /\ attempt_count' = 0
    /\ jpc' = "begin"
    /\ pollIdx' = 0
    /\ active' = active + 1
    /\ loopsStarted' = loopsStarted + 1
    /\ emptyRun' = FALSE
    /\ UNCHANGED <<items, beginCalls>>

\* start() called by a caller
JobStart(c) ==
    /\ cpc[c] = "idle"
    /\ IF CanStart(phase)
       THEN Launch /\ ret' = [ret EXCEPT ![c] = "start:launched"]
       ELSE /\ ret' = [ret EXCEPT ![c] = "start:no-op"]
            /\ UNCHANGED <<phase, last_error, attempt_count, jpc, pollIdx,
                           items, active, beginCalls, loopsStarted, emptyRun>>
    /\ lastCall' = <<c, "start">>
    /\ UNCHANGED <<cpc, snap, resetMark>>
    /\ UNCHANGED <<svars, avars, xvars, cvars>>
    /\ UNCHANGED <<lastWait, reply>>

\* status(): a snapshot, never blocking
JobStatus(c) ==
    /\ cpc[c] = "idle"
    /\ snap' = [snap EXCEPT ![c] = [phase |-> phase, last_error |-> last_error,
                                    empty |-> emptyRun]]
    /\ lastCall' = <<c, "status">>
    /\ UNCHANGED <<phase, last_error, attempt_count, jpc, pollIdx, items,
                   active, beginCalls, loopsStarted, emptyRun, cpc, ret,
                   resetMark>>
    /\ UNCHANGED <<svars, avars, xvars, cvars>>
    /\ UNCHANGED <<lastWait, reply>>

\* variant: retry() also restarts a completed job
RetryAllowed_completed(ph) == ph \in {"Failed", "Completed"}

\* retry() is only meaningful when the phase is Failed
RetryAllowed(ph) == ph = "Failed"

\* retry(): not Failed, a no-op returning false; Failed, the error is cleared
\* and the phase reset to NotStarted before start() is called
JobRetry(c) ==
    /\ cpc[c] = "idle"
    /\ IF RetryAllowed(phase)
       THEN /\ loopsStarted < MaxLoops
            /\ phase' = "NotStarted"
            /\ last_error' = "None"
            /\ emptyRun' = FALSE
            /\ cpc' = [cpc EXCEPT ![c] = "retry_start"]
            /\ resetMark' = [resetMark EXCEPT ![c] = loopsStarted]
            /\ UNCHANGED ret
       ELSE /\ ret' = [ret EXCEPT ![c] = "retry:false"]
            /\ UNCHANGED <<phase, last_error, emptyRun, cpc, resetMark>>
    /\ lastCall' = <<c, "retry">>
    /\ UNCHANGED <<attempt_count, jpc, pollIdx, items, active, beginCalls,
                   loopsStarted, snap>>
    /\ UNCHANGED <<svars, avars, xvars, cvars>>
    /\ UNCHANGED <<lastWait, reply>>

\* retry(), second half: the call of start()
JobRetryStart(c) ==
    /\ cpc[c] = "retry_start"
    /\ IF CanStart(phase)
       THEN Launch
       ELSE UNCHANGED <<phase, last_error, attempt_count, jpc, pollIdx, items,
                        active, beginCalls, loopsStarted, emptyRun>>
    /\ ret' = [ret EXCEPT ![c] = "retry:true"]
    /\ cpc' = [cpc EXCEPT ![c] = "idle"]
    /\ lastCall' = <<c, "retry_start">>
    /\ UNCHANGED <<snap, resetMark>>
    /\ UNCHANGED <<svars, avars, xvars, cvars>>
    /\ UNCHANGED <<lastWait, reply>>

\* variant: a failed run starts over by itself
AfterFail_again == "begin"

\* the attempt loop returns after a failure: retries are caller-initiated only
AfterFail == "idle"

\* the attempt loop ends in Failed with a message
Fail(msg) ==
    /\ phase' = "Failed"
    /\ last_error' = msg
    /\ jpc' = AfterFail
    /\ active' = active - 1

\* step 1: the preparer's begin()
LoopBegin ==
    /\ jpc = "begin"
    /\ beginCalls' = beginCalls + 1
    /\ attempt_count' = attempt_count + 1
    /\ jpc' = "poll"
    /\ lastCall' = <<0, "loop">>
    /\ UNCHANGED <<phase, last_error, pollIdx, items, active, loopsStarted,
                   emptyRun, cpc, ret, snap, resetMark>>
    /\ UNCHANGED <<svars, avars, xvars, cvars>>
    /\ UNCHANGED <<lastWait, reply>>

\* step 4: begin() or isReady() raises
PreparerRaises ==
    /\ jpc \in {"begin", "poll"}
    /\ Fail("preparer error")
    /\ beginCalls' = IF jpc = "begin" THEN beginCalls + 1 ELSE beginCalls
    /\ attempt_count' = IF jpc = "begin" THEN attempt_count + 1 ELSE attempt_count
    /\ lastCall' = <<0, "loop">>
    /\ lastWait' = 0
    /\ UNCHANGED <<pollIdx, items, loopsStarted, emptyRun, cpc, ret, snap,
                   resetMark>>
    /\ UNCHANGED <<svars, avars, xvars, cvars>>
    /\ UNCHANGED reply

Min(a, b) == IF a <= b THEN a ELSE b

\* variant: the wait shrinks with the attempt index and is not capped
Wait_shrinking(i) == BACKOFF_BASE * (MAX_ATTEMPTS - i) + MAX_WAIT

\* BackoffPolicy.wait(attempt_index): base * (i + 1), capped
Wait(i) == Min(BACKOFF_BASE * (i + 1), MAX_WAIT)

\* variant: one poll too many is allowed for
Exhausted_late(n) == n = MAX_ATTEMPTS + 1

\* all MAX_ATTEMPTS polls were made without a ready answer
Exhausted(n) == n = MAX_ATTEMPTS

\* steps 2 and 5: isReady() answers not ready; after MAX_ATTEMPTS polls the
\* loop gives up with a timeout message, otherwise it sleeps and polls again
PollNotReady ==
    /\ jpc = "poll"
    /\ pollIdx < MAX_ATTEMPTS
    /\ pollIdx' = pollIdx + 1
    /\ IF Exhausted(pollIdx + 1)
       THEN Fail("timeout") /\ lastWait' = 0
       ELSE /\ lastWait' = Wait(pollIdx)
            /\ UNCHANGED <<phase, last_error, jpc, active>>
    /\ lastCall' = <<0, "loop">>
    /\ UNCHANGED <<attempt_count, items, beginCalls, loopsStarted, emptyRun,
                   cpc, ret, snap, resetMark>>
    /\ UNCHANGED <<svars, avars, xvars, cvars>>
    /\ UNCHANGED reply

\* step 3 as the source does it (design note on the double check): on a ready
\* answer the job is marked Completed, and the item count is looked at after
PollReady ==
    /\ jpc = "poll"
    /\ pollIdx < MAX_ATTEMPTS
    /\ \E n \in ItemCounts :
           /\ items' = n
           /\ emptyRun' = (n = 0)
    /\ pollIdx' = pollIdx + 1
    /\ phase' = "Completed"
    /\ jpc' = "recheck"
    /\ lastCall' = <<0, "loop">>
    /\ lastWait' = 0
    /\ UNCHANGED <<last_error, attempt_count, active, beginCalls, loopsStarted,
                   cpc, ret, snap, resetMark>>
    /\ UNCHANGED <<svars, avars, xvars, cvars>>
    /\ UNCHANGED reply

\* the re-check: zero items flip the job to Failed with its own message
Recheck ==
    /\ jpc = "recheck"
    /\ IF items = 0
       THEN Fail("empty result")
       ELSE /\ jpc' = "idle"
            /\ active' = active - 1
            /\ UNCHANGED <<phase, last_error>>
    /\ lastCall' = <<0, "loop">>
    /\ UNCHANGED <<attempt_count, pollIdx, items, beginCalls, loopsStarted,
                   emptyRun, cpc, ret, snap, resetMark>>
    /\ UNCHANGED <<svars, avars, xvars, cvars>>
    /\ UNCHANGED <<lastWait, reply>>

Init == InitStream /\ AgentIdle /\ JobIdle /\ SessionIdle /\ ChatIdle
Next ==
    \/ Tick
    \/ StartBegin \/ StartPostOk \/ StartPostFails
    \/ GetProviderOk \/ ProviderFails
    \/ StreamPush \/ StreamComplete
    \/ Generate \/ SinglePush \/ SingleComplete
    \/ Return \/ ExceptUpdate
    \/ LoopTop \/ DrainOne \/ DrainDone \/ ReadTime \/ Check
    \/ UpdateOk \/ UpdateFails
    \/ ExitCheck \/ LoopExit \/ LoopContinue \/ Sleep
Spec == Init /\ [][Next]_vars
\* the steps of the thread that runs stream_response
CallerThread ==
    \/ StartBegin \/ StartPostOk \/ StartPostFails
    \/ GetProviderOk \/ ProviderFails
    \/ StreamPush \/ StreamComplete
    \/ Generate \/ SinglePush \/ SingleComplete
    \/ Return \/ ExceptUpdate
\* the flush thread is scheduled again and again, and time passes
NextLive == Next \/ WakeAtHorizon
SpecLive == Init /\ [][NextLive]_vars /\ WF_vars(LoopThread) /\ WF_vars(Tick)
\* the thread of stream_response is scheduled again and again as well
SpecFair == SpecLive /\ WF_vars(CallerThread)

\* one handler and a caller that uses its public operations in any order
InitSession == StreamIdle /\ AgentIdle /\ JobIdle /\ SessionIdle /\ ChatIdle
NextSession ==
    \/ Tick
    \/ SessionStart \/ SessionPostOk \/ SessionPostFails
    \/ SessionPush \/ SessionFinish
    \/ LoopTop \/ DrainOne \/ DrainDone \/ ReadTime \/ Check
    \/ UpdateOk \/ UpdateFails
    \/ ExitCheck \/ LoopExit \/ LoopContinue \/ Sleep
SpecSession == InitSession /\ [][NextSession]_vars

\* a caller that calls start() a second time on its handler, pushes nothing
\* and calls complete(): with an empty queue and an empty buffer the flush
\* loops neither drain nor update
NextRestart ==
    \/ Tick
    \/ SessionStart \/ SessionPostOk \/ SessionPostFails \/ SessionFinish
    \/ RestartBegin \/ RestartPostOk \/ RestartPostFails
    \/ LoopTop \/ DrainDone \/ ReadTime \/ Check
    \/ ExitCheck \/ LoopExit \/ Sleep
    \/ Loop2Top \/ Loop2Iterate \/ Loop2Exit
SpecRestart == InitSession /\ [][NextRestart]_vars

\* concurrent /codegen commands
InitCommands == StreamIdle /\ InitAgent /\ JobIdle /\ SessionIdle /\ ChatIdle
NextCommands ==
    \E h \in Handlers :
        \/ Receive(h) \/ ProcessUnavailable(h) \/ ProcessQuery(h)
        \/ SetRepoMissing(h) \/ ParseBegin(h) \/ InitCodebaseFails(h)
        \/ ParseEnd(h) \/ ParseFails(h)
        \/ InitAgentOk(h) \/ InitAgentFails(h) \/ Reply(h)
SpecCommands == InitCommands /\ [][NextCommands]_vars

\* one CodegenAgent processing a sequence of inputs
NextAgent ==
    \/ Receive(1) \/ NextInput(1)
    \/ ProcessUnavailable(1) \/ ProcessQuery(1)
    \/ SetRepoMissing(1) \/ ParseBegin(1) \/ InitCodebaseFails(1)
    \/ ParseEnd(1) \/ ParseFails(1)
    \/ InitAgentOk(1) \/ InitAgentFails(1) \/ Reply(1)

SpecAgent == InitCommands /\ [][NextAgent]_vars

\* one preparation job and its callers
InitJob == StreamIdle /\ AgentIdle /\ JobIdle /\ SessionIdle /\ ChatIdle
\* ----------------------------------------------- the /parsing-status command
\* os.environ.get("ACTIVE_AGENT"): "codegen", or unset / another agent
ActiveAgents == {"codegen", "None"}

\* the attributes class AgentRegistry defines
AgentRegistryAttrs ==
    {"register_default_agents", "get_agent_types", "register_agent_type"}

\* the attributes class CodegenAgent defines or inherits from BaseAgent
CodegenAgentAttrs ==
    {"__init__", "__str__", "_check_codegen_available", "_handle_analyze",
     "_handle_edit", "_handle_generate", "_handle_search", "_handle_set_repo",
     "_initialize_agent", "_initialize_codebase", "cleanup",
     "get_capabilities", "get_state", "initialize", "process", "set_state",
     "update_config"}

\* the status word a phase is reported under
PhaseStatus(ph) ==
    CASE ph = "NotStarted" -> "not_started"
      [] ph = "InProgress" -> "in_progress"
      [] ph = "Completed" -> "completed"
      [] ph = "Failed" -> "failed"

\* parsing_status_callback, lines 42-54
FormatStatus(st, err) ==
    CASE st = "not_started" ->
             Message("Repository parsing has not started", "None", FALSE, FALSE)
      [] st = "in_progress" ->
             Message("Repository parsing is in progress", "None", TRUE, FALSE)
      [] st = "completed" ->
             Message("Repository parsing completed successfully", "None",
                     FALSE, FALSE)
      [] st = "failed" ->
             Message("Repository parsing failed", err, FALSE, TRUE)
      [] OTHER -> Message("Unknown parsing status", "None", FALSE, FALSE)

\* parsing_status_callback, lines 58-60
ErrorReply == Message("Error checking parsing status", "None", FALSE, FALSE)

\* parsing_status_callback, lines 26-60: the text handed to respond() when
\* the job is in phase ph with stored error err. Line 35 looks up
\* AgentRegistry.get_agent and line 39 get_parsing_status on the agent that
\* line 36 has just constructed: a missing attribute raises AttributeError,
\* which line 58 catches. An agent constructed at line 36 has prepared
\* nothing, so its status is that of a job not started.
StatusReply(a, ph, err) ==
    IF a # "codegen"
    THEN Message("No active Codegen agent found", "None", FALSE, FALSE)
    ELSE IF "get_agent" \notin AgentRegistryAttrs
    THEN ErrorReply
    ELSE IF "get_parsing_status" \notin CodegenAgentAttrs
    THEN ErrorReply
    ELSE FormatStatus(PhaseStatus("NotStarted"), "None")

\* parsing_status_callback, lines 13-60
parsing_status_callback ==
    /\ \E a \in ActiveAgents :
           reply' = [msg |-> StatusReply(a, phase, last_error),
                     phase |-> phase, stored |-> last_error, active |-> a]
    /\ UNCHANGED <<phase, last_error, attempt_count, jpc, pollIdx, items,
                   active, beginCalls, loopsStarted, emptyRun, cpc, ret, snap,
                   resetMark, lastCall, lastWait>>
    /\ UNCHANGED <<svars, avars, xvars, cvars>>

NextJob ==
    \/ \E c \in Callers :
           \/ JobStart(c) \/ JobStatus(c) \/ JobRetry(c) \/ JobRetryStart(c)
    \/ LoopBegin \/ PreparerRaises \/ PollNotReady \/ PollReady \/ Recheck
SpecJob == InitJob /\ [][NextJob]_vars
\* a caller inside retry() goes on to its call of start()
SpecJobFair == SpecJob /\ \A c \in Callers : WF_vars(JobRetryStart(c))
\* the background worker of the job keeps running
LoopStep == LoopBegin \/ PreparerRaises \/ PollNotReady \/ PollReady \/ Recheck
SpecJobLive == SpecJob /\ WF_vars(LoopStep)

\* the preparation job together with the /parsing-status command
NextStatus == NextJob \/ parsing_status_callback
SpecStatus == InitJob /\ [][NextStatus]_vars

\* ================================================================ claims
NoSinkFailure == \A i \in 1..Len(calls) : calls[i].ok
SinkFailed == \E i \in 1..Len(calls) : ~calls[i].ok
LoopEndedNormally == lpc = "done" /\ NoSinkFailure


\* ------------------------------------------------ thread chat with memory
\* src/state_store/conversation_memory.py, line 10
MAX_HISTORY_LENGTH == 10

\* what the user writes and what the provider answers
Prompts == {"q1", "q2"}
Replies == {"r1", "r2"}

\* conversation_memory.py lines 76-80: the entry stored for a message (the
\* timestamp field is the thread's and the same in every entry)
Entry(message, is_user) ==
    [user |-> IF is_user THEN "User" ELSE "Assistant", text |-> message]

\* lines 83-84: history[-MAX_HISTORY_LENGTH:]
Trimmed(h) ==
    IF Len(h) > MAX_HISTORY_LENGTH
    THEN SubSeq(h, Len(h) - MAX_HISTORY_LENGTH + 1, Len(h))
    ELSE h

\* add_to_conversation_history, lines 46-89, the file operations succeeding
add_to_conversation_history(h, message, is_user) ==
    Trimmed(Append(h, Entry(message, is_user)))

\* the history file of a thread with earlier exchanges
OldHistory ==
    [i \in 1..OldEntries |-> Entry("old", i % 2 = 1)]

\* the handlers start with the history file of the thread absent or holding
\* earlier exchanges
ChatStart ==
    /\ tpc = "idle"
    /\ origin = "thread"
    /\ memory_enabled = FALSE
    /\ history \in {<<>>, OldHistory}
    /\ delivered = "None"
    /\ viaStream = FALSE
    /\ msgs = 0

\* thread_chat_callback lines 19-52 / handle_thread_message lines 92-133: the
\* preferences are read and, memory being enabled, the user's message is
\* stored; a chat command opens a new thread, whose history file is new
ChatBegin ==
    /\ tpc \in {"idle", "done", "failed"}
    /\ msgs < MaxMessages
    /\ msgs' = msgs + 1
    /\ \E o \in {"command", "thread"}, m \in BOOLEAN, p \in Prompts :
           /\ origin' = o
           /\ memory_enabled' = m
           /\ history' =
                  LET base == IF o = "command" THEN <<>> ELSE history
                  IN  IF m THEN add_to_conversation_history(base, p, TRUE)
                      ELSE base
    /\ delivered' = "None"
    /\ viaStream' = FALSE
    /\ tpc' = "stream"
    /\ UNCHANGED <<svars, avars, jvars, xvars>>

\* thread_chat_callback lines 24-30 (empty prompt) / handle_thread_message
\* lines 94-95 and 111-112 (not a thread of the bot): the handler returns
ChatSkip ==
    /\ tpc \in {"idle", "done", "failed"}
    /\ msgs < MaxMessages
    /\ msgs' = msgs + 1
    /\ origin' \in {"command", "thread"}
    /\ delivered' = "None"
    /\ viaStream' = FALSE
    /\ tpc' = "done"
    /\ UNCHANGED <<memory_enabled, history>>
    /\ UNCHANGED <<svars, avars, jvars, xvars>>

\* lines 56-64 / 141-149: stream_response returns, the reply is in the thread
ChatStreamReturns ==
    /\ tpc = "stream"
    /\ \E r \in Replies : delivered' = r
    /\ viaStream' = TRUE
    /\ tpc' = "done"
    /\ UNCHANGED <<origin, memory_enabled, history, msgs>>
    /\ UNCHANGED <<svars, avars, jvars, xvars>>

\* lines 65-66 / 150-151: stream_response raises
ChatStreamRaises ==
    /\ tpc = "stream"
    /\ tpc' = "fallback"
    /\ UNCHANGED <<origin, memory_enabled, history, delivered, viaStream,
                   msgs>>
    /\ UNCHANGED <<svars, avars, jvars, xvars>>

\* lines 68-78 / 153-163: the reply of get_provider_response is posted and,
\* memory being enabled, stored
ChatFallbackOk ==
    /\ tpc = "fallback"
    /\ \E r \in Replies :
           /\ delivered' = r
           /\ history' = IF memory_enabled
                         THEN add_to_conversation_history(history, r, FALSE)
                         ELSE history
    /\ tpc' = "done"
    /\ UNCHANGED <<origin, memory_enabled, viaStream, msgs>>
    /\ UNCHANGED <<svars, avars, jvars, xvars>>

\* lines 80-86 / 165-167: get_provider_response or the post raises
ChatFallbackFails ==
    /\ tpc = "fallback"
    /\ tpc' = "failed"
    /\ UNCHANGED <<origin, memory_enabled, history, delivered, viaStream,
                   msgs>>
    /\ UNCHANGED <<svars, avars, jvars, xvars>>

NextChat ==
    \/ ChatBegin \/ ChatSkip
    \/ ChatStreamReturns \/ ChatStreamRaises
    \/ ChatFallbackOk \/ ChatFallbackFails

InitChat == StreamIdle /\ AgentIdle /\ JobIdle /\ SessionIdle /\ ChatStart
SpecChat == InitChat /\ [][NextChat]_vars

\* C1: after push(f1), ..., push(fn), finish() with no sink failure, the last
\* sink update issued by the flush loop carries f1 + ... + fn.
C1_LastUpdateCarriesAll ==
    (hasStreaming /\ LoopEndedNormally /\ calls # <<>>)
        => calls[Len(calls)].text = Concat(chunks)

\* C2: on the streaming path the string stream_response returns is the
\* in-order concatenation of every fragment the provider yielded.
C2_ReturnsCompleteText ==
    (hasStreaming /\ hpc = "returned") => result = Concat(chunks)

\* C3: when every fragment is pushed and finish() called before the first
\* update interval has elapsed, the flush loop issues exactly one sink update,
\* and it contains all the fragments in order.
C3_ExactlyOneUpdate ==
    (LoopEndedNormally /\ completeTime < UPDATE_INTERVAL
                       /\ Concat(pushed) # <<>>)
        => (Len(calls) = 1 /\ calls[1].text = Concat(pushed))

\* the number of sink update calls the loop made after its first failed one
CallsAfterFailure ==
    Len(calls) - (CHOOSE i \in 1..Len(calls) :
                     ~calls[i].ok /\ \A j \in 1..(i - 1) : calls[j].ok)

C5_BufferHoldsEveryFragment ==
    lpc = "done" => buffer = Concat(pushed)

\* C6: a session that has lasted T issued at most ceil(T / interval) + 1 sink
\* update calls.
C6_CoalescingBound ==
    Len(calls) <= CeilDiv(now, UPDATE_INTERVAL) + 1

\* the bound is attained by a session with an interval update and two
\* updates made after finish()
C6_Witness ==
    /\ lpc = "done"
    /\ Len(calls) = 3
    /\ Len(calls) = CeilDiv(now, UPDATE_INTERVAL) + 1

\* C7: without streaming generation, generate_response is called exactly
\* once, its result pushed as exactly one fragment, finish() called and that
\* same string returned; with streaming, generate_response is never called.
C7_SingleShotFallback ==
    /\ hasStreaming => genCalls = 0
    /\ (~hasStreaming /\ hpc = "returned")
           => /\ genCalls = 1
              /\ pushed = <<response>>
              /\ is_complete
              /\ result = response

\* the fallback returned while the flush loop had not yet merged the fragment
C7_Witness ==
    /\ ~hasStreaming
    /\ hpc = "returned"
    /\ result = <<"a", "b">>
    /\ buffer = <<>>

\* C8: for one resource at most one preparation is active at any time:
\* parse_repo() is never invoked for a repository while a previous invocation
\* for the same repository is still in progress.
C8_OneActivePreparation ==
    \A h1, h2 \in Handlers :
        (h1 # h2 /\ parsing[h1] # "None") => parsing[h1] # parsing[h2]

\* C9: a ready answer with itemCount = 0 ends the run in Failed with its own
\* message, and no status() snapshot taken during or after that run reports
\* Completed.
C9_EmptyNeverCompleted ==
    /\ (emptyRun /\ jpc = "idle")
           => (phase = "Failed" /\ last_error = "empty result")
    /\ \A c \in Callers : snap[c].empty => snap[c].phase # "Completed"

RetryCalled(c) == cpc[c] = "idle" /\ lastCall' = <<c, "retry">>
RetryStarted(c) == cpc[c] = "retry_start" /\ lastCall' = <<c, "retry_start">>

\* C10: retry() outside Failed returns false and changes neither phase,
\* last_error nor the number of begin() calls; retry() in Failed clears
\* last_error, passes through NotStarted and leads to InProgress, launching
\* at most one attempt loop itself, with one new loop started when it returns.
C10_Retry ==
    /\ [][\A c \in Callers :
            /\ (RetryCalled(c) /\ phase # "Failed")
                   => /\ ret'[c] = "retry:false"
                      /\ cpc'[c] = "idle"
                      /\ UNCHANGED <<phase, last_error, beginCalls,
                                     loopsStarted, active, jpc>>
            /\ (RetryCalled(c) /\ phase = "Failed")
                   => /\ phase' = "NotStarted"
                      /\ last_error' = "None"
                      /\ cpc'[c] = "retry_start"
            /\ RetryStarted(c)
                   => /\ ret'[c] = "retry:true"
                      /\ loopsStarted' <= loopsStarted + 1
                      /\ loopsStarted' > resetMark[c]
                      /\ active' <= 1
                      /\ (phase = "NotStarted" => phase' = "InProgress")]_vars
    /\ \A c \in Callers :
           (cpc[c] = "retry_start" /\ phase = "NotStarted")
               ~> (phase = "InProgress")

\* a retry() in Failed has returned and its loop runs, while the other
\* caller's retry() was refused
C10_Witness ==
    /\ ret[1] = "retry:true"
    /\ ret[2] = "retry:false"
    /\ lastCall = <<1, "retry_start">>
    /\ phase = "InProgress"
    /\ loopsStarted = 2

\* C11: an attempt loop whose polls all report not ready makes at most
\* MAX_ATTEMPTS polls and then ends in Failed with the timeout message, which
\* is neither the empty-result nor the preparer-exception message.
C11_PollTimeout ==
    /\ [](/\ pollIdx <= MAX_ATTEMPTS
          /\ jpc = "poll" => pollIdx < MAX_ATTEMPTS
          /\ last_error = "timeout"
                 => /\ phase = "Failed"
                    /\ jpc = "idle"
                    /\ pollIdx = MAX_ATTEMPTS
                    /\ ~emptyRun
          /\ last_error = "empty result" => emptyRun)
    /\ [][(jpc = "poll" /\ pollIdx' = pollIdx + 1 /\ jpc' # "recheck")
             => IF pollIdx' = MAX_ATTEMPTS
                THEN phase' = "Failed" /\ last_error' = "timeout"
                ELSE phase' = "InProgress" /\ jpc' = "poll"]_vars

\* a run timed out after its last poll and a caller has read the message
C11_Witness ==
    /\ phase = "Failed"
    /\ last_error = "timeout"
    /\ pollIdx = MAX_ATTEMPTS
    /\ snap[1].last_error = "timeout"

\* C12: last_error is set only while the phase is Failed, in the job and in
\* every status() snapshot; a successful run after failed ones reports
\* Completed with no error.
C12_ErrorOnlyInFailed ==
    /\ last_error # "None" => phase = "Failed"
    /\ \A c \in Callers : snap[c].last_error # "None" => snap[c].phase = "Failed"

\* a failed run was seen by one caller, the run started next succeeded and
\* the other caller reads Completed with no error
C12_Witness ==
    /\ loopsStarted = 2
    /\ jpc = "idle"
    /\ items = 1
    /\ snap[2] = [phase |-> "Failed", last_error |-> "preparer error",
                  empty |-> FALSE]
    /\ snap[1] = [phase |-> "Completed", last_error |-> "None", empty |-> FALSE]

\* C13: starting a preparation never throws: an exception raised by the
\* preparer becomes a failure value whose error message is the preparer's
\* exception message.
C13_FailureKeepsMessage ==
    \A h \in Handlers :
        (apc[h] = "reply" /\ exc[h] # "None")
            => (res[h].error # "success" /\ res[h].detail = exc[h])

\* C14: every attempt loop ends in one of three outcomes (Completed, Failed
\* after the attempts are used up, Failed on a non-retryable error); no job
\* stays InProgress forever; once Failed, the phase changes only through a
\* caller's retry() or start().
C14_LoopTerminates ==
    /\ (jpc # "idle") ~> (jpc = "idle" /\ phase \in {"Completed", "Failed"})
    /\ [](jpc = "idle" =>
            /\ phase # "InProgress"
            /\ phase = "Completed" => last_error = "None"
            /\ phase = "Failed" =>
                   last_error \in {"timeout", "empty result", "preparer error"})
    /\ [][(phase = "Failed" /\ phase' # "Failed")
             => (/\ lastCall'[1] \in Callers
                 /\ lastCall'[2] \in {"start", "retry", "retry_start"})]_vars

C14_Witness ==
    /\ jpc = "idle"
    /\ phase = "Failed"
    /\ last_error = "preparer error"
    /\ loopsStarted = 2
    /\ lastCall[2] = "status"

\* C15: the wait of the backoff policy is a function of the attempt index
\* alone, it never decreases as the index grows, and it never exceeds the
\* maximum per-attempt wait, for every index in 0..MAX_ATTEMPTS-1.
C15_BackoffMonotoneBounded ==
    /\ \A i, j \in 0..(MAX_ATTEMPTS - 1) : i <= j => Wait(i) <= Wait(j)
    /\ \A i \in 0..(MAX_ATTEMPTS - 1) : Wait(i) >= 0 /\ Wait(i) <= MAX_WAIT
    /\ lastWait <= MAX_WAIT
    /\ (jpc = "poll" /\ pollIdx >= 1) => lastWait = Wait(pollIdx - 1)

C15_Witness ==
    /\ jpc = "poll"
    /\ pollIdx = 2
    /\ lastWait = MAX_WAIT
    /\ Wait(0) < lastWait

\* C16: the status reply depends only on the job's phase: a "please wait"
\* message for NotStarted and InProgress; for Failed the stored error and the
\* statement that a retry is available; it reflects the job's current phase.
C16_ReplyFollowsPhase ==
    reply.active = "codegen" =>
        /\ reply.phase \in {"NotStarted", "InProgress"} => reply.msg.wait
        /\ reply.phase = "Failed" =>
               (reply.msg.retry /\ reply.msg.error = reply.stored)

\* C17: after finish(), with no further push and no sink failure, the flush
\* loop terminates under fair scheduling; it never terminates normally while
\* complete is false or the queue holds a fragment.
C17_LoopTerminates ==
    /\ is_complete ~> (lpc = "done")
    /\ [](LoopEndedNormally => (is_complete /\ queue = <<>>))
    /\ [][(lpc # "done" /\ lpc' = "done" /\ NoSinkFailure')
             => (is_complete /\ queue = <<>> /\ ~is_running')]_vars

C17_Witness ==
    /\ LoopEndedNormally
    /\ is_complete
    /\ queue = <<>>
    /\ Len(pushed) = MaxFrags
    /\ wake > completeTime

\* C18 as stated: in every flush-loop iteration in which complete is true or
\* the interval has passed since the last sink update, the loop issues a sink
\* update with the buffer, also when the buffer is empty.
C18_UpdateInEveryDueIteration ==
    [][(/\ lpc = "check"
        /\ lpc' # "check"
        /\ ShouldUpdate(current_time, last_update_time, is_complete))
           => lpc' = "update"]_vars

\* C18, amended: in such an iteration the loop issues exactly one sink update
\* with the full buffer when the buffer holds text, and none when the buffer
\* is empty (a session that finishes with no fragment keeps its placeholder).
C18_OneUpdateWhenText ==
    /\ [][(lpc = "check" /\ lpc' # "check")
             => /\ calls' = calls
                /\ lpc' = IF ShouldUpdate(current_time, last_update_time,
                                          is_complete) /\ buffer # <<>>
                          THEN "update" ELSE "exit_check"]_vars
    /\ [][(lpc = "update" /\ lpc' # "update")
             => /\ buffer # <<>>
                /\ Len(calls') = Len(calls) + 1
                /\ SubSeq(calls', 1, Len(calls)) = calls
                /\ calls'[Len(calls')].text = buffer
                /\ lpc' \in {"exit_check", "done"}]_vars
    /\ [][calls' # calls => lpc = "update"]_vars
    /\ [](lpc = "update" => buffer # <<>>)

C18_Witness ==
    /\ LoopEndedNormally
    /\ is_complete
    /\ buffer = <<>>
    /\ calls = <<>>
    /\ sinkText.kind = "placeholder"
    /\ hpc = "returned"

\* C19: after a sink update call of the flush loop has failed, the loop has
\* terminated and does not retry: no further sink update of the buffer is
\* issued, whatever fragments are pushed afterwards.
C19_NoUpdateAfterFailure ==
    /\ [][SinkFailed =>
            /\ UNCHANGED <<calls, buffer, lpc, is_running, last_update_time>>
            /\ sinkText' # sinkText => sinkText'.kind = "error"]_vars
    /\ [][(~SinkFailed /\ SinkFailed')
             => (lpc = "update" /\ lpc' = "done" /\ ~is_running')]_vars

C19_Witness ==
    /\ SinkFailed
    /\ Len(pushed) > calls[Len(calls)].n
    /\ now > calls[Len(calls)].t
    /\ is_complete
    /\ hpc = "returned"

\* C20: finish() only sets complete to true: it makes no sink call and leaves
\* buffer, the pending queue, the target handle and the last-update time
\* unchanged; every sink update, the last one included, is made by a step of
\* the flush loop.
C20_FinishOnlySetsFlag ==
    /\ [][(is_complete' # is_complete)
             => /\ is_complete'
                /\ hpc \in {"stream", "complete_single"}
                /\ UNCHANGED <<buffer, queue, message_ts, last_update_time,
                               calls, sinkText, is_running, lpc>>]_vars
    /\ [][calls' # calls => (lpc = "update" /\ hpc' = hpc)]_vars

C20_Witness ==
    /\ lpc = "done"
    /\ is_complete
    /\ Len(calls) = 1
    /\ calls[1].done
    /\ calls[1].ok
    /\ calls[1].t > completeTime
    /\ calls[1].text = Concat(pushed)

\* C21: complete is monotone: once true it stays true, for any sequence of
\* push(), finish() (repeated finish() calls included) and flush-loop steps.
C21_CompleteMonotone ==
    /\ [][is_complete => is_complete']_vars
    /\ [](finishes > 0 => is_complete)
    /\ [][is_complete' # is_complete => finishes' = finishes + 1]_vars

C21_Witness ==
    /\ finishes = 2
    /\ is_complete
    /\ lpc = "done"
    /\ Len(pushed) = MaxFrags
    /\ queue # <<>>

\* C22: buffer is append-only and written only by the flush loop: every value
\* it takes is a prefix of every later value, and push() changes the pending
\* queue, never buffer.
C22_BufferAppendOnly ==
    /\ [][IsPrefix(buffer, buffer')]_vars
    /\ [][buffer' # buffer
             => (/\ lpc = "drain"
                 /\ hpc' = hpc
                 /\ pushed' = pushed
                 /\ queue # <<>>
                 /\ buffer' = buffer \o Head(queue)
                 /\ queue' = Tail(queue))]_vars
    /\ [][pushed' # pushed
             => (/\ buffer' = buffer
                 /\ queue' = Append(queue, pushed'[Len(pushed')])
                 /\ lpc' = lpc)]_vars

C22_Witness ==
    /\ buffer = <<"a", "b">>
    /\ pushed = <<<<"a">>, <<"b">>>>
    /\ calls # <<>>
    /\ calls[1].text = <<"a">>
    /\ calls[1].n = 1

\* C23: start() posts the placeholder, records the returned handle and only
\* then starts the flush loop: no sink update is issued before the handle is
\* recorded, every sink update targets that handle, and no flush loop is
\* started when the initial post fails.
C23_HandleBeforeLoop ==
    /\ [](lpc # "idle" => (message_ts = "ts" /\ sinkText.kind # "none"))
    /\ [](\A i \in 1..Len(calls) : calls[i].ts = "ts")
    /\ [][(lpc = "idle" /\ lpc' # "idle")
             => (/\ hpc = "posting"
                 /\ message_ts = "None"
                 /\ message_ts' = "ts"
                 /\ sinkText' = [kind |-> "placeholder", text |-> <<>>]
                 /\ calls = <<>>)]_vars
    /\ [][(hpc = "posting" /\ hpc' = "except")
             => (lpc' = "idle" /\ message_ts' = "None")]_vars
    /\ [](message_ts = "None" => (lpc = "idle" /\ calls = <<>>))

C23_Witness ==
    /\ Len(calls) = 2
    /\ calls[1].ts = "ts"
    /\ calls[2].ts = "ts"
    /\ message_ts = "ts"
    /\ sinkText.kind = "content"
    /\ hpc = "returned"

\* a flush loop is running: its thread was started and has not ended
Running(pc) == pc \notin {"idle", "done"}

\* C24: each stream session has at most one flush loop running at any time,
\* for any sequence of calls of its public operations, start() being called
\* more than once included.
C24_OneFlushLoop == ~(Running(lpc) /\ Running(lpc2))

\* C25: for every call of stream_response, the calls in which the provider
\* lookup, set_model or the fragment sequence raises after the session was
\* opened included, the flush loop of the session eventually terminates.
C25_LoopAlwaysTerminates == (lpc # "idle") ~> (lpc = "done")

\* C26: when the provider fails mid-stream and stream_response writes the
\* error text to the placeholder message, that text is the last content
\* written to the message: no later update of the flush loop overwrites it.
C26_ErrorTextStays ==
    [][sinkText.kind = "error" => sinkText'.kind = "error"]_vars

\* C27: the texts of the successive sink update calls of one session form a
\* growing chain: each text is non-empty, has the text of the update before it
\* as a prefix, and is a prefix of the concatenation of the fragments pushed
\* so far.
C27_UpdateChain ==
    /\ \A i \in 1..Len(calls) :
           /\ calls[i].text # <<>>
           /\ IsPrefix(calls[i].text, Concat(pushed))
           /\ IsPrefix(calls[i].text,
                       Concat(SubSeq(pushed, 1, calls[i].n)))
    /\ \A i \in 1..(Len(calls) - 1) :
           IsPrefix(calls[i].text, calls[i + 1].text)

C27_Witness ==
    /\ Len(calls) = 2
    /\ calls[1].text = <<"a">>
    /\ calls[2].text = <<"a", "b">>
    /\ ~calls[1].done
    /\ pushed = <<<<"a">>, <<"b">>>>

\* a session driven by any caller, observed over two update intervals
NextRate ==
    \/ RateTick
    \/ SessionStart \/ SessionPostOk \/ SessionPostFails
    \/ SessionPush \/ SessionFinish
    \/ LoopTop \/ DrainOne \/ DrainDone \/ ReadTime \/ Check
    \/ UpdateOk \/ UpdateFails
    \/ ExitCheck \/ LoopExit \/ LoopContinue \/ Sleep

SpecRate == InitSession /\ [][NextRate]_vars

\* C28 as stated: while complete is false the first update is issued no
\* earlier than one update interval after open(), and two consecutive updates
\* issued while complete is false are at least one update interval apart,
\* the time of an update being the moment chat_update is called.
C28_IssueTimesApart ==
    /\ (calls # <<>> /\ ~calls[1].done) => calls[1].t >= UPDATE_INTERVAL
    /\ \A i \in 1..(Len(calls) - 1) :
           (~calls[i].done /\ ~calls[i + 1].done)
               => calls[i + 1].t - calls[i].t >= UPDATE_INTERVAL

\* C28, amended: on the clock readings of the flush loop (line 72) updates
\* are rate limited while complete is false: such an update is made only when
\* the reading is at least one update interval after the time recorded by
\* open() or by the update before it, a successful update records its reading,
\* and nothing else moves the recorded time.
C28_ReadingsApart ==
    /\ [][(Len(calls') > Len(calls) /\ ~is_complete)
             => /\ current_time - last_update_time >= UPDATE_INTERVAL
                /\ calls'[Len(calls')].t >= last_update_time + UPDATE_INTERVAL
                /\ calls'[Len(calls')].ok => last_update_time' = current_time
                /\ calls = <<>> => last_update_time = 0]_vars
    /\ [][last_update_time' # last_update_time
             => (hpc = "init" \/ Len(calls') > Len(calls))]_vars
    /\ [](current_time <= now)

C28_Witness ==
    /\ Len(calls) = 2
    /\ ~calls[1].done /\ ~calls[2].done
    /\ calls[1].text = <<"a">>
    /\ calls[2].text = <<"a", "b">>
    /\ calls[2].t - calls[1].t < UPDATE_INTERVAL
    /\ last_update_time = 2 * UPDATE_INTERVAL

\* C29: for every thread message and chat command handled for a user with
\* memory enabled, once the handler has delivered an AI reply the history of
\* the conversation contains that reply as an Assistant entry, on the
\* streaming path as well as on the fallback path.
C29_ReplyRemembered ==
    (tpc = "done" /\ memory_enabled /\ delivered # "None")
        => \E i \in 1..Len(history) : history[i] = Entry(delivered, FALSE)

\* C30: after any sequence of set_repo actions on one CodegenAgent, successful
\* or failed, whenever state.agent_instance is set it was created from the
\* codebase currently in state.current_codebase.
C30_AgentOfCurrentCodebase ==
    \A h \in Handlers :
        (apc[h] \in {"process", "reply"} /\ state[h].agent_instance # "None")
            => state[h].agent_instance = state[h].current_codebase
====
